---- MODULE Spec2Model ----
(***************************************************************************)
(* A model of perplexity_shell.py: the response recovery pipeline of       *)
(* parse_perplexity_response (envelope unwrap, object locator, sanitizer,  *)
(* decode chain, newline restorer), the citation annotator                 *)
(* TerminalFormatter._format_citations, and the command line run           *)
(* main -> query_perplexity -> parse_perplexity_response ->                *)
(* format_response.                                                        *)
(*                                                                         *)
(* A text is a sequence of characters.  A character is a string: an ASCII  *)
(* character is the one-character string of itself (the backquote and the  *)
(* control characters other than tab, newline, form feed and carriage      *)
(* return are written "U+00XX"), a character above U+007F is "U+XXXX".     *)
(***************************************************************************)
EXTENDS Integers, Sequences, FiniteSets, TLC

VARIABLES
    pc,            \* position of the run
    api_key,       \* main: args.api_key or the environment's key ("" when none)
    transport,     \* what urlopen will do: an outcome of the network call
    raw_response,  \* parse_perplexity_response: its argument
    text,          \* parse_perplexity_response: the content text (a Python value)
    match,         \* match.group(1), the candidate ("" before the locator)
    json_str,      \* parse_perplexity_response: the text being cleaned and decoded
    result,        \* the decoded value, then the returned value
    exc,           \* the exception in flight, or the one that ended the run
    calls,         \* the stages and library calls made so far, in order
    returned,      \* the value the function under study returned
    citations,     \* the citations: of the response body, or the argument
    content,       \* _format_citations: its content argument
    printed,       \* what format_response put on the console
    exit_code      \* the process's exit status (-1 while it runs)

vars == <<pc, api_key, transport, raw_response, text, match, json_str, result,
          exc, calls, returned, citations, content, printed, exit_code>>

-----------------------------------------------------------------------------
(* Characters *)

NL == "\n"
TAB == "\t"
CR == "\r"
BS == "\\"
DQ == "\""
SP == " "
LBRACE == "{"
RBRACE == "}"
\* U+00E9, a character of two UTF-8 bytes
EACUTE == "U+00E9"

\* The characters U+0000 .. U+007F, in order.
Ascii ==
   <<
      "U+0000", "U+0001", "U+0002", "U+0003", "U+0004", "U+0005", "U+0006", "U+0007",
      "U+0008", "\t", "\n", "U+000B", "\f", "\r", "U+000E", "U+000F",
      "U+0010", "U+0011", "U+0012", "U+0013", "U+0014", "U+0015", "U+0016", "U+0017",
      "U+0018", "U+0019", "U+001A", "U+001B", "U+001C", "U+001D", "U+001E", "U+001F",
      " ", "!", "\"", "#", "$", "%", "&", "'",
      "(", ")", "*", "+", ",", "-", ".", "/",
      "0", "1", "2", "3", "4", "5", "6", "7",
      "8", "9", ":", ";", "<", "=", ">", "?",
      "@", "A", "B", "C", "D", "E", "F", "G",
      "H", "I", "J", "K", "L", "M", "N", "O",
      "P", "Q", "R", "S", "T", "U", "V", "W",
      "X", "Y", "Z", "[", "\\", "]", "^", "_",
      "U+0060", "a", "b", "c", "d", "e", "f", "g",
      "h", "i", "j", "k", "l", "m", "n", "o",
      "p", "q", "r", "s", "t", "u", "v", "w",
      "x", "y", "z", "{", "|", "}", "~", "U+007F"
   >>

\* The text of a string literal of this module.
Chars(str) == [i \in 1..Len(str) |-> SubSeq(str, i, i)]

\* The characters U+0000..U+0009 and U+000B..U+001F.
ControlChars == {Ascii[n + 1] : n \in (0..31) \ {10}}

HexDigits == Chars("0123456789abcdefABCDEF")

IsHex(c) == \E i \in 1..Len(HexDigits) : HexDigits[i] = c

HexVal(c) ==
    LET i == CHOOSE k \in 1..Len(HexDigits) : HexDigits[k] = c
    IN  IF i <= 16 THEN i - 1 ELSE i - 7

\* chr(n) for n <= U+FFFF; a character above U+007F is named by its four hex
\* digits.
Chr(n) ==
    IF n < 128 THEN Ascii[n + 1]
    ELSE LET d(k) == Chars("0123456789ABCDEF")[k + 1]
         IN  "U+" \o d((n \div 4096) % 16) \o d((n \div 256) % 16)
                  \o d((n \div 16) % 16) \o d(n % 16)

\* ord(c)
Ord(c) ==
    IF Len(c) = 1 THEN (CHOOSE n \in 0..127 : Ascii[n + 1] = c)
    ELSE LET h == Chars(c)
         IN  HexVal(h[3]) * 4096 + HexVal(h[4]) * 256 + HexVal(h[5]) * 16 + HexVal(h[6])

-----------------------------------------------------------------------------
(* Texts *)

\* s[from..] starts with the text p
StartsWithAt(s, p, from) ==
    /\ from + Len(p) - 1 <= Len(s)
    /\ \A k \in 1..Len(p) : s[from + k - 1] = p[k]

\* p in s
Contains(s, p) == \E i \in 1..(Len(s) - Len(p) + 1) : StartsWithAt(s, p, i)

\* s[i:] of Python, for a 1-based i
From(s, i) == SubSeq(s, i, Len(s))

\* the least element of a non-empty set of integers
Least(S) == CHOOSE n \in S : \A m \in S : n <= m

\* the first index >= from of a character of the set cs, Len(s) + 1 when none
FirstIn(s, from, cs) ==
    LET hits == {i \in from..Len(s) : s[i] \in cs}
    IN  IF hits = {} THEN Len(s) + 1 ELSE Least(hits)

\* the first index >= from of a character outside the set cs, Len(s) + 1 when none
FirstNotIn(s, from, cs) ==
    LET hits == {i \in from..Len(s) : s[i] \notin cs}
    IN  IF hits = {} THEN Len(s) + 1 ELSE Least(hits)

\* the concatenation of the texts ss[lo], ..., ss[hi]
RECURSIVE FlattenRange(_, _, _)
FlattenRange(ss, lo, hi) ==
    IF lo > hi THEN <<>>
    ELSE IF lo = hi THEN ss[lo]
    ELSE LET mid == (lo + hi) \div 2
         IN  FlattenRange(ss, lo, mid) \o FlattenRange(ss, mid + 1, hi)

Flatten(ss) == FlattenRange(ss, 1, Len(ss))

\* str.replace(old, new) for a non-empty old: the non-overlapping occurrences,
\* left to right
RECURSIVE Replace(_, _, _)
Replace(s, old, new) ==
    LET hits == {i \in 1..(Len(s) - Len(old) + 1) : StartsWithAt(s, old, i)}
        i == Least(hits)
    IN  IF hits = {} THEN s
        ELSE SubSeq(s, 1, i - 1) \o new \o Replace(From(s, i + Len(old)), old, new)

-----------------------------------------------------------------------------
(* Object locator: re.search, under re.DOTALL, of an opening brace, a run  *)
(* of characters other than the closing brace, a closing brace, and then   *)
(* any number of times: a run of characters other than the closing brace   *)
(* and a closing brace.                                                    *)

\* the first index >= from where s holds c, 0 when there is none
IndexOf(s, c, from) ==
    LET i == FirstIn(s, from, {c})
    IN  IF i > Len(s) THEN 0 ELSE i

\* The repeated group (a run of characters other than the closing brace, then
\* a closing brace) from just after the closing brace at e: greedy, each
\* repetition reaches the next closing brace, so it ends on the last one of
\* the text.
MoreBlocks(s, e) ==
    CHOOSE last \in e..Len(s) :
        /\ s[last] = RBRACE
        /\ \A k \in (last + 1)..Len(s) : s[k] # RBRACE

NoMatch == [found |-> FALSE, group1 |-> <<>>]

\* The leftmost opening brace from which the pattern matches, and from there
\* through the last closing brace the repetition reaches.  The pattern matches
\* from an opening brace when a closing brace follows it; when none follows
\* the first opening brace, none follows a later one.
re_search_object(s) ==
    LET open == IndexOf(s, LBRACE, 1)
        close == IF open = 0 THEN 0 ELSE IndexOf(s, RBRACE, open + 1)
    IN  IF open = 0 \/ close = 0 THEN NoMatch
        ELSE [found |-> TRUE, group1 |-> SubSeq(s, open, MoreBlocks(s, close))]

-----------------------------------------------------------------------------
(* Sanitizer *)

Placeholder == Chars("{{NEWLINE}}")

\* Where the string pattern (a quote, any run of backslash pairs and of
\* characters other than quote and backslash, a quote) ends when its opening
\* quote is at j - 1: the index of the closing quote, 0 when there is no match
\* from that quote.  The dot of a backslash pair does not match a newline (no
\* DOTALL), so a backslash before a newline, or before the end of the text,
\* ends the attempt.
RECURSIVE StringEnd(_, _)
StringEnd(s, j) ==
    LET k == FirstIn(s, j, {DQ, BS})
    IN  IF k > Len(s) THEN 0
        ELSE IF s[k] = DQ THEN k
        ELSE IF k + 1 <= Len(s) /\ s[k + 1] # NL THEN StringEnd(s, k + 2)
        ELSE 0

\* replace_newlines: every newline of the matched literal s that no backslash
\* precedes becomes the placeholder
replace_newlines(s) ==
    Flatten([k \in 1..Len(s) |->
               IF s[k] = NL /\ (k = 1 \/ s[k - 1] # BS) THEN Placeholder
               ELSE <<s[k]>>])

\* re.sub of the string pattern with replace_newlines, from index i: the
\* leftmost non-overlapping matches
RECURSIVE SubStringsFrom(_, _)
SubStringsFrom(s, i) ==
    LET q == IndexOf(s, DQ, i)
        e == IF q = 0 THEN 0 ELSE StringEnd(s, q + 1)
    IN  IF q = 0 THEN From(s, i)
        ELSE IF e # 0
        THEN SubSeq(s, i, q - 1) \o replace_newlines(SubSeq(s, q, e)) \o SubStringsFrom(s, e + 1)
        ELSE SubSeq(s, i, q) \o SubStringsFrom(s, q + 1)

protect_strings(s) == SubStringsFrom(s, 1)

\* the class U+0000..U+001F, the newline included
replace_control_newline_too(s) ==
    [k \in 1..Len(s) |-> IF s[k] \in ControlChars \cup {NL} THEN SP ELSE s[k]]

\* re.sub of each character U+0000..U+0009, U+000B..U+001F by one space
replace_control(s) ==
    [k \in 1..Len(s) |-> IF s[k] \in ControlChars THEN SP ELSE s[k]]

sanitize(s) == replace_control(protect_strings(s))

-----------------------------------------------------------------------------
(* Python values.  One record shape for every kind, so that any two values *)
(* compare: str holds the text of a str (and the literal of a float), num  *)
(* an int (and 1 or 0 for a bool), keys and items the keys (texts) and the *)
(* values of a dict in insertion order, items the elements of a list.      *)

PyValue(kind, str, num, keys, items) ==
    [kind |-> kind, str |-> str, num |-> num, keys |-> keys, items |-> items]

PyNone == PyValue("null", <<>>, 0, <<>>, <<>>)
PyStr(s) == PyValue("str", s, 0, <<>>, <<>>)
PyInt(n) == PyValue("int", <<>>, n, <<>>, <<>>)
PyFloat(lit) == PyValue("float", lit, 0, <<>>, <<>>)
PyBool(b) == PyValue("bool", <<>>, IF b THEN 1 ELSE 0, <<>>, <<>>)
PyList(items) == PyValue("list", <<>>, 0, <<>>, items)
PyDict(keys, items) == PyValue("dict", <<>>, 0, keys, items)

\* the position of key k in the keys ks, 0 when absent
KeyIndex(ks, k) ==
    IF \E i \in 1..Len(ks) : ks[i] = k
    THEN CHOOSE i \in 1..Len(ks) : ks[i] = k
    ELSE 0

\* d[k] = v on a dict: a new key goes last, a known key keeps its place
DictSet(d, k, v) ==
    LET i == KeyIndex(d.keys, k)
    IN  IF i = 0 THEN PyDict(Append(d.keys, k), Append(d.items, v))
        ELSE PyDict(d.keys, [d.items EXCEPT ![i] = v])

\* bool(v)
Truthy(v) ==
    CASE v.kind = "null" -> FALSE
      [] v.kind = "str" -> v.str # <<>>
      [] v.kind \in {"int", "bool"} -> v.num # 0
      [] v.kind = "float" -> TRUE
      [] v.kind = "list" -> v.items # <<>>
      [] v.kind = "dict" -> v.keys # <<>>

-----------------------------------------------------------------------------
(* json.loads, as json.decoder and json.scanner do it (strict mode)        *)

Parsed(v, e) == [ok |-> TRUE, val |-> v, end |-> e]
Failed == [ok |-> FALSE, val |-> PyNone, end |-> 0]

\* WHITESPACE.match(s, i).end()
SkipWs(s, i) == FirstNotIn(s, i, {SP, TAB, NL, CR})

\* BACKSLASH of json.decoder
JsonEscapes == Chars("\"\\/bfnrt")
JsonEscaped(e) ==
    CASE e = "b" -> Chr(8)
      [] e = "f" -> "\f"
      [] e = "n" -> NL
      [] e = "r" -> CR
      [] e = "t" -> TAB
      [] OTHER -> e

Hex4(s, j) ==
    HexVal(s[j]) * 4096 + HexVal(s[j + 1]) * 256 + HexVal(s[j + 2]) * 16 + HexVal(s[j + 3])

\* scanstring(s, end, strict=True) from index i, acc the characters so far:
\* a chunk up to the next quote, backslash or control character, then that
\* terminator.  A surrogate pair is not joined.
RECURSIVE scanstring(_, _, _)
scanstring(s, i, acc) ==
    LET j == FirstIn(s, i, {DQ, BS, NL} \cup ControlChars)
        chunk == acc \o SubSeq(s, i, j - 1)
    IN  IF j > Len(s) THEN Failed
        ELSE IF s[j] = DQ THEN Parsed(PyStr(chunk), j + 1)
        ELSE IF s[j] # BS THEN Failed
        ELSE IF j + 1 > Len(s) THEN Failed
        ELSE IF s[j + 1] = "u"
             THEN IF j + 5 <= Len(s) /\ \A k \in 2..5 : IsHex(s[j + k])
                  THEN scanstring(s, j + 6, Append(chunk, Chr(Hex4(s, j + 2))))
                  ELSE Failed
        ELSE IF \E k \in 1..Len(JsonEscapes) : JsonEscapes[k] = s[j + 1]
             THEN scanstring(s, j + 2, Append(chunk, JsonEscaped(s[j + 1])))
        ELSE Failed

Digits == Chars("0123456789")
IsDigit(c) == \E k \in 1..10 : Digits[k] = c
DigitVal(c) == (CHOOSE k \in 1..10 : Digits[k] = c) - 1

\* the end of the run of digits that starts at i (i itself when none)
DigitsEnd(s, i) == FirstNotIn(s, i, {Digits[k] : k \in 1..10})

RECURSIVE IntOf(_)
IntOf(ds) == IF ds = <<>> THEN 0 ELSE IntOf(SubSeq(ds, 1, Len(ds) - 1)) * 10 + DigitVal(ds[Len(ds)])

\* NUMBER_RE.match(s, i): an optional minus and an integer without leading
\* zeros, then an optional fraction, then an optional exponent.  d0 is where
\* the digits start, iend, fend and eend where the integer, the fraction and
\* the exponent end.
NumberValue(s, i, d0, iend, eend) ==
    IF eend > iend THEN Parsed(PyFloat(SubSeq(s, i, eend - 1)), eend)
    ELSE IF s[i] = "-" THEN Parsed(PyInt(0 - IntOf(SubSeq(s, d0, iend - 1))), iend)
    ELSE Parsed(PyInt(IntOf(SubSeq(s, d0, iend - 1))), iend)

ExponentEnd(s, fend, e0, dend) ==
    IF fend <= Len(s) /\ s[fend] \in {"e", "E"} /\ dend > e0 THEN dend ELSE fend

ExponentDigits(s, fend) ==
    IF fend + 1 <= Len(s) /\ s[fend + 1] \in {"+", "-"} THEN fend + 2 ELSE fend + 1

NumberExponent(s, i, d0, iend, fend, e0) ==
    NumberValue(s, i, d0, iend, ExponentEnd(s, fend, e0, DigitsEnd(s, e0)))

FractionEnd(s, iend, dend) ==
    IF iend <= Len(s) /\ s[iend] = "." /\ dend > iend + 1 THEN dend ELSE iend

NumberFraction(s, i, d0, iend, fend) ==
    NumberExponent(s, i, d0, iend, fend, ExponentDigits(s, fend))

NumberInteger(s, i, d0, iend) ==
    IF iend = d0 THEN Failed
    ELSE NumberFraction(s, i, d0, iend, FractionEnd(s, iend, DigitsEnd(s, iend + 1)))

IntegerEnd(s, d0, dend) == IF d0 <= Len(s) /\ s[d0] = "0" THEN d0 + 1 ELSE dend

NumberDigits(s, i, d0) == NumberInteger(s, i, d0, IntegerEnd(s, d0, DigitsEnd(s, d0)))

scan_number(s, i) == NumberDigits(s, i, IF i <= Len(s) /\ s[i] = "-" THEN i + 1 ELSE i)

RECURSIVE scan_once(_, _), JSONObjectPairs(_, _, _), JSONArrayItems(_, _, _)

\* JSONObject: s[i] is the opening brace, j the first character after the
\* whitespace that follows it
ObjectOpen(s, j) ==
    IF j > Len(s) THEN Failed
    ELSE IF s[j] = RBRACE THEN Parsed(PyDict(<<>>, <<>>), j + 1)
    ELSE IF s[j] # DQ THEN Failed
    ELSE JSONObjectPairs(s, j, PyDict(<<>>, <<>>))

JSONObject(s, i) == ObjectOpen(s, SkipWs(s, i + 1))

\* after a pair: d holds it, after is the first character past the whitespace
\* that follows its value, nxt the one past the comma and its whitespace
PairNext(s, d, nxt) ==
    IF nxt > Len(s) \/ s[nxt] # DQ THEN Failed ELSE JSONObjectPairs(s, nxt, d)

PairEnd(s, d, after) ==
    IF after > Len(s) THEN Failed
    ELSE IF s[after] = RBRACE THEN Parsed(d, after + 1)
    ELSE IF s[after] # "," THEN Failed
    ELSE PairNext(s, d, SkipWs(s, after + 1))

PairValue(s, d, key, val) ==
    IF val.ok THEN PairEnd(s, DictSet(d, key, val.val), SkipWs(s, val.end)) ELSE Failed

PairColon(s, d, key, colon) ==
    IF colon <= Len(s) /\ s[colon] = ":"
    THEN PairValue(s, d, key, scan_once(s, SkipWs(s, colon + 1)))
    ELSE Failed

PairKey(s, d, key) ==
    IF key.ok THEN PairColon(s, d, key.val.str, SkipWs(s, key.end)) ELSE Failed

\* the pairs of an object from the quote at j that opens a key
JSONObjectPairs(s, j, d) == PairKey(s, d, scanstring(s, j + 1, <<>>))

\* JSONArray: s[i] is the opening bracket, j the first character after the
\* whitespace that follows it
ArrayOpen(s, j) ==
    IF j > Len(s) THEN Failed
    ELSE IF s[j] = "]" THEN Parsed(PyList(<<>>), j + 1)
    ELSE JSONArrayItems(s, j, <<>>)

JSONArray(s, i) == ArrayOpen(s, SkipWs(s, i + 1))

ItemEnd(s, items, after) ==
    IF after > Len(s) THEN Failed
    ELSE IF s[after] = "]" THEN Parsed(PyList(items), after + 1)
    ELSE IF s[after] # "," THEN Failed
    ELSE JSONArrayItems(s, SkipWs(s, after + 1), items)

ItemValue(s, acc, val) ==
    IF val.ok THEN ItemEnd(s, Append(acc, val.val), SkipWs(s, val.end)) ELSE Failed

JSONArrayItems(s, j, acc) == ItemValue(s, acc, scan_once(s, j))

\* the constants and the number of _scan_once
ScanAtom(s, i, number) ==
    IF StartsWithAt(s, Chars("null"), i) THEN Parsed(PyNone, i + 4)
    ELSE IF StartsWithAt(s, Chars("true"), i) THEN Parsed(PyBool(TRUE), i + 4)
    ELSE IF StartsWithAt(s, Chars("false"), i) THEN Parsed(PyBool(FALSE), i + 5)
    ELSE IF number.ok THEN number
    ELSE IF StartsWithAt(s, Chars("NaN"), i) THEN Parsed(PyFloat(Chars("NaN")), i + 3)
    ELSE IF StartsWithAt(s, Chars("Infinity"), i) THEN Parsed(PyFloat(Chars("Infinity")), i + 8)
    ELSE IF StartsWithAt(s, Chars("-Infinity"), i) THEN Parsed(PyFloat(Chars("-Infinity")), i + 9)
    ELSE Failed

\* _scan_once of json.scanner
scan_once(s, i) ==
    IF i > Len(s) THEN Failed
    ELSE IF s[i] = DQ THEN scanstring(s, i + 1, <<>>)
    ELSE IF s[i] = LBRACE THEN JSONObject(s, i)
    ELSE IF s[i] = "[" THEN JSONArray(s, i)
    ELSE ScanAtom(s, i, scan_number(s, i))

\* the whole text must be one value and whitespace
WholeText(s, r) ==
    IF r.ok /\ SkipWs(s, r.end) = Len(s) + 1 THEN [ok |-> TRUE, val |-> r.val]
    ELSE [ok |-> FALSE, val |-> PyNone]

\* json.loads(s): [ok, val]; not ok is json.JSONDecodeError
json_loads(s) == WholeText(s, scan_once(s, SkipWs(s, 1)))

-----------------------------------------------------------------------------
(* json_str.encode().decode("unicode_escape")                              *)

\* The UTF-8 bytes of the character c, each as the Latin-1 character the
\* unicode_escape codec reads it as.
EncodedBytes(c) ==
    IF Len(c) = 1 THEN <<c>>
    ELSE LET n == Ord(c)
         IN  IF n < 128 THEN <<c>>
             ELSE IF n < 2048 THEN <<Chr(192 + (n \div 64)), Chr(128 + (n % 64))>>
             ELSE <<Chr(224 + (n \div 4096)), Chr(128 + ((n \div 64) % 64)),
                    Chr(128 + (n % 64))>>

encode(s) == Flatten([k \in 1..Len(s) |-> EncodedBytes(s[k])])

Unescaped(t) == [ok |-> TRUE, text |-> t]
UnicodeDecodeError == [ok |-> FALSE, text |-> <<>>]

\* the one-character escapes of the codec other than the line continuation
SimpleEscapes == Chars("\\'\"bftnrva")
SimpleEscaped(c) ==
    CASE c = "b" -> Chr(8)
      [] c = "f" -> "\f"
      [] c = "t" -> TAB
      [] c = "n" -> NL
      [] c = "r" -> CR
      [] c = "v" -> Chr(11)
      [] c = "a" -> Chr(7)
      [] OTHER -> c

IsOctal(c) == \E k \in 1..8 : Digits[k] = c

\* the end of the run of at most three octal digits that starts at i
OctalEnd(b, i) ==
    IF i + 1 <= Len(b) /\ IsOctal(b[i + 1])
    THEN IF i + 2 <= Len(b) /\ IsOctal(b[i + 2]) THEN i + 3 ELSE i + 2
    ELSE i + 1

RECURSIVE BaseVal(_, _)
BaseVal(ds, base) ==
    IF ds = <<>> THEN 0
    ELSE BaseVal(SubSeq(ds, 1, Len(ds) - 1), base) * base + HexVal(ds[Len(ds)])

\* The codec on the bytes b from index j, acc the characters decoded so far.
\* \x, \u and \U take exactly 2, 4 and 8 hex digits (a \U above U+FFFF and a
\* \N{name} are reported as errors here); a backslash before any other
\* character stays, and the character is read as one of its own.
RECURSIVE DecodeEscapes(_, _, _)
DecodeEscapes(b, i, acc) ==
    LET j == FirstIn(b, i, {BS})
        run == acc \o SubSeq(b, i, j - 1)
    IN  IF j > Len(b) THEN Unescaped(run)
        ELSE IF j + 1 > Len(b) THEN UnicodeDecodeError
        ELSE LET c == b[j + 1]
                 width == CASE c = "x" -> 2 [] c = "u" -> 4 [] c = "U" -> 8 [] OTHER -> 0
                 hexOk == /\ j + 1 + width <= Len(b)
                          /\ \A k \in 1..width : IsHex(b[j + 1 + k])
                 hexVal == BaseVal(SubSeq(b, j + 2, j + 1 + width), 16)
             IN  IF c = NL THEN DecodeEscapes(b, j + 2, run)
                 ELSE IF \E k \in 1..Len(SimpleEscapes) : SimpleEscapes[k] = c
                      THEN DecodeEscapes(b, j + 2, Append(run, SimpleEscaped(c)))
                 ELSE IF IsOctal(c)
                      THEN DecodeEscapes(b, OctalEnd(b, j + 1),
                               Append(run, Chr(BaseVal(SubSeq(b, j + 1, OctalEnd(b, j + 1) - 1), 8))))
                 ELSE IF width > 0
                      THEN IF hexOk /\ hexVal < 65536
                           THEN DecodeEscapes(b, j + 2 + width, Append(run, Chr(hexVal)))
                           ELSE UnicodeDecodeError
                 ELSE IF c = "N" THEN UnicodeDecodeError
                 ELSE DecodeEscapes(b, j + 2, run \o <<BS, c>>)

unicode_escape(s) == DecodeEscapes(encode(s), 1, <<>>)

-----------------------------------------------------------------------------
(* restore_newlines *)

\* the restorer that does not descend into lists
RECURSIVE restore_newlines_no_lists(_)
restore_newlines_no_lists(obj) ==
    IF obj.kind = "dict"
    THEN PyDict(obj.keys, [k \in 1..Len(obj.items) |-> restore_newlines_no_lists(obj.items[k])])
    ELSE IF obj.kind = "str"
    THEN PyStr(Replace(obj.str, Placeholder, <<NL>>))
    ELSE obj

RECURSIVE restore_newlines(_)
restore_newlines(obj) ==
    IF obj.kind = "dict"
    THEN PyDict(obj.keys, [k \in 1..Len(obj.items) |-> restore_newlines(obj.items[k])])
    ELSE IF obj.kind = "list"
    THEN PyList([k \in 1..Len(obj.items) |-> restore_newlines(obj.items[k])])
    ELSE IF obj.kind = "str"
    THEN PyStr(Replace(obj.str, Placeholder, <<NL>>))
    ELSE obj

-----------------------------------------------------------------------------
(* TerminalFormatter._format_citations *)

\* str(n) for n >= 0
RECURSIVE IntToText(_)
IntToText(n) ==
    IF n < 10 THEN <<Digits[n + 1]>> ELSE IntToText(n \div 10) \o <<Digits[(n % 10) + 1]>>

Expanded(t) == [ok |-> TRUE, text |-> t]
ReError == [ok |-> FALSE, text |-> <<>>]

AsciiLetters == Chars("abcdefghijklmnopqrstuvwxyzABCDEFGHIJKLMNOPQRSTUVWXYZ")
IsLetter(c) == \E k \in 1..Len(AsciiLetters) : AsciiLetters[k] = c

\* ESCAPES of the re parser that a template may use
TemplateEscapes == Chars("abfnrtv\\")
TemplateEscaped(c) ==
    CASE c = "a" -> Chr(7)
      [] c = "b" -> Chr(8)
      [] c = "f" -> "\f"
      [] c = "n" -> NL
      [] c = "r" -> CR
      [] c = "t" -> TAB
      [] c = "v" -> Chr(11)
      [] OTHER -> c

\* re's parse_template and expand_template for a pattern without groups: the
\* replacement text of the template r for a match whose text is m.  The only
\* group there is is \g<0>, the match itself; any other group reference, a
\* backslash before another letter and a backslash at the end are re.error.
RECURSIVE ExpandTemplate(_, _, _, _)
ExpandTemplate(r, m, i, acc) ==
    LET j == FirstIn(r, i, {BS})
        run == acc \o SubSeq(r, i, j - 1)
    IN  IF j > Len(r) THEN Expanded(run)
        ELSE IF j + 1 > Len(r) THEN ReError
        ELSE LET c == r[j + 1]
                 close == IndexOf(r, ">", j + 3)
                 name == IF close = 0 THEN <<>> ELSE SubSeq(r, j + 3, close - 1)
                 oend == OctalEnd(r, j + 1)
             IN  IF c = "g"
                 THEN IF /\ j + 2 <= Len(r) /\ r[j + 2] = "<" /\ close # 0 /\ name # <<>>
                         /\ \A k \in 1..Len(name) : name[k] = "0"
                      THEN ExpandTemplate(r, m, close + 1, run \o m)
                      ELSE ReError
                 ELSE IF c = "0"
                 THEN ExpandTemplate(r, m, oend,
                          Append(run, Chr(BaseVal(SubSeq(r, j + 1, oend - 1), 8) % 256)))
                 ELSE IF IsDigit(c)
                 THEN IF /\ j + 3 <= Len(r) /\ IsOctal(c) /\ IsOctal(r[j + 2]) /\ IsOctal(r[j + 3])
                         /\ BaseVal(SubSeq(r, j + 1, j + 3), 8) <= 255
                      THEN ExpandTemplate(r, m, j + 4,
                               Append(run, Chr(BaseVal(SubSeq(r, j + 1, j + 3), 8))))
                      ELSE ReError
                 ELSE IF \E k \in 1..Len(TemplateEscapes) : TemplateEscapes[k] = c
                 THEN ExpandTemplate(r, m, j + 2, Append(run, TemplateEscaped(c)))
                 ELSE IF IsLetter(c) THEN ReError
                 ELSE ExpandTemplate(r, m, j + 2, run \o <<BS, c>>)

\* the pattern \[i\] as the text it matches
Marker(i) == <<"[">> \o IntToText(i) \o <<"]">>

\* the replacement template of index i and url
Annotation(url, i) ==
    Chars("[link=") \o url \o Chars("][cyan][") \o IntToText(i) \o Chars("][/cyan][/link]")

\* re.sub(marker pattern of i, template, txt): [ok, text]; not ok is re.error
SubMarker(txt, i, url) ==
    LET t == ExpandTemplate(Annotation(url, i), Marker(i), 1, <<>>)
    IN  IF t.ok THEN Expanded(Replace(txt, Marker(i), t.text)) ELSE ReError

\* The loop of _format_citations from index i on; citations are texts.
RECURSIVE FormatFrom(_, _, _)
FormatFrom(cites, txt, i) ==
    IF i > Len(cites) THEN Expanded(txt)
    ELSE LET citation_url == IF cites[i] # <<>> THEN cites[i] ELSE <<"#">>
             r == SubMarker(txt, i, citation_url)
         IN  IF r.ok THEN FormatFrom(cites, r.text, i + 1) ELSE ReError

_format_citations(cites, txt) == FormatFrom(cites, txt, 1)

-----------------------------------------------------------------------------
(* obj[key] *)

Got(v) == [ok |-> TRUE, val |-> v, exc |-> ""]
Raised(e) == [ok |-> FALSE, val |-> PyNone, exc |-> e]

\* obj[key] for a str or int key
Subscript(obj, key) ==
    CASE obj.kind = "dict" ->
            IF key.kind = "str" /\ KeyIndex(obj.keys, key.str) # 0
            THEN Got(obj.items[KeyIndex(obj.keys, key.str)])
            ELSE Raised("KeyError")
      [] obj.kind = "list" ->
            IF key.kind # "int" THEN Raised("TypeError")
            ELSE IF key.num >= 0 /\ key.num < Len(obj.items) THEN Got(obj.items[key.num + 1])
            ELSE IF key.num < 0 /\ 0 - key.num <= Len(obj.items)
                 THEN Got(obj.items[Len(obj.items) + key.num + 1])
            ELSE Raised("IndexError")
      [] obj.kind = "str" ->
            IF key.kind # "int" THEN Raised("TypeError")
            ELSE IF key.num >= 0 /\ key.num < Len(obj.str) THEN Got(PyStr(<<obj.str[key.num + 1]>>))
            ELSE IF key.num < 0 /\ 0 - key.num <= Len(obj.str)
                 THEN Got(PyStr(<<obj.str[Len(obj.str) + key.num + 1]>>))
            ELSE Raised("IndexError")
      [] OTHER -> Raised("TypeError")

\* obj[k1][k2]...: the first failure ends the chain
RECURSIVE SubscriptPath(_, _)
SubscriptPath(obj, path) ==
    IF path = <<>> THEN Got(obj)
    ELSE LET r == Subscript(obj, Head(path))
         IN  IF r.ok THEN SubscriptPath(r.val, Tail(path)) ELSE r

\* the path through the last choice
ContentPathLastChoice ==
    <<PyStr(Chars("choices")), PyInt(-1), PyStr(Chars("message")), PyStr(Chars("content"))>>

\* ["choices"][0]["message"]["content"]
ContentPath ==
    <<PyStr(Chars("choices")), PyInt(0), PyStr(Chars("message")), PyStr(Chars("content"))>>

EnvelopeMarker == Chars("\"content\":")

-----------------------------------------------------------------------------
(* TerminalFormatter.format_response.  What reaches the console is a record: *)
(* for the panel the explanation row, the note lines of notes_string (each  *)
(* the note itself, a string note annotated) and the code notes the table   *)
(* shows; for the fallback the data printed in red.                         *)

NoOutput ==
    [kind |-> "none", explanation |-> PyNone, notes |-> <<>>, code |-> <<>>, data |-> PyNone]
Panel(explanation, notes, code) ==
    [kind |-> "panel", explanation |-> explanation, notes |-> notes, code |-> code,
     data |-> PyNone]
Fallback(data) ==
    [kind |-> "fallback", explanation |-> PyNone, notes |-> <<>>, code |-> <<>>,
     data |-> data]

\* d.get(k, default) of a dict d
DictGet(d, k, default) ==
    IF KeyIndex(d.keys, k) = 0 THEN default ELSE d.items[KeyIndex(d.keys, k)]

\* what a for loop over v visits: [ok, items]; not ok is TypeError
Iterate(v) ==
    CASE v.kind = "list" -> [ok |-> TRUE, items |-> v.items]
      [] v.kind = "dict" -> [ok |-> TRUE, items |-> [k \in 1..Len(v.keys) |-> PyStr(v.keys[k])]]
      [] v.kind = "str" -> [ok |-> TRUE, items |-> [k \in 1..Len(v.str) |-> PyStr(<<v.str[k]>>)]]
      [] OTHER -> [ok |-> FALSE, items |-> <<>>]

\* an f-string field of a str, an int, a bool, None or a float (a float by
\* its literal)
FormatValue(v) ==
    CASE v.kind = "str" -> v.str
      [] v.kind = "int" -> IF v.num < 0 THEN <<"-">> \o IntToText(0 - v.num) ELSE IntToText(v.num)
      [] v.kind = "bool" -> IF v.num = 1 THEN Chars("True") ELSE Chars("False")
      [] v.kind = "null" -> Chars("None")
      [] v.kind = "float" -> v.str

\* the citation of each turn of the loop, the empty text for a falsy one
CitationTexts(items) ==
    [k \in 1..Len(items) |-> IF Truthy(items[k]) THEN FormatValue(items[k]) ELSE <<>>]

\* self._format_citations(citations, v) for any two values: [ok, val]; not ok
\* is the TypeError of a citations value that is not iterable or of a content
\* that is no str, or re.error
Annotated(r) == IF r.ok THEN [ok |-> TRUE, val |-> PyStr(r.text)] ELSE [ok |-> FALSE, val |-> PyNone]

AnnotateItems(items, v) ==
    IF items = <<>> THEN [ok |-> TRUE, val |-> v]
    ELSE IF v.kind # "str" THEN [ok |-> FALSE, val |-> PyNone]
    ELSE Annotated(_format_citations(CitationTexts(items), v.str))

AnnotateValue(cites, v) ==
    IF Iterate(cites).ok THEN AnnotateItems(Iterate(cites).items, v)
    ELSE [ok |-> FALSE, val |-> PyNone]

\* the explanation of lines 73-82: annotated when it and the citations are
\* truthy; a truthy explanation that is no str is not renderable
ExplanationRow(data, cites) ==
    LET explanation == DictGet(data, Chars("explanation"), PyStr(<<>>))
    IN  IF ~Truthy(explanation) THEN [ok |-> TRUE, val |-> explanation]
        ELSE IF explanation.kind # "str" THEN [ok |-> FALSE, val |-> PyNone]
        ELSE IF Truthy(cites) THEN AnnotateValue(cites, explanation)
        ELSE [ok |-> TRUE, val |-> explanation]

IsCodeNote(note) == note.kind = "dict" /\ KeyIndex(note.keys, Chars("code")) # 0

PlainNote(r) == [ok |-> r.ok, val |-> r.val, code |-> FALSE]

\* one turn of the loop over the notes: [ok, val, code]
NoteTurn(note, cites) ==
    IF note.kind = "str" /\ Truthy(cites) THEN PlainNote(AnnotateValue(cites, note))
    ELSE IF IsCodeNote(note)
    THEN [ok |-> DictGet(note, Chars("code"), PyNone).kind = "str", val |-> note, code |-> TRUE]
    ELSE [ok |-> TRUE, val |-> note, code |-> FALSE]

\* the panel of the turns: notes_string when it is not empty, else the group
\* of the code notes
NotesPanel(explanation, turns) ==
    LET plain == SelectSeq(turns, LAMBDA t : ~t.code)
        code == SelectSeq(turns, LAMBDA t : t.code)
    IN  Panel(explanation, [k \in 1..Len(plain) |-> plain[k].val],
              IF plain = <<>> THEN [k \in 1..Len(code) |-> code[k].val] ELSE <<>>)

NotesOf(explanation, turns) ==
    IF \A k \in 1..Len(turns) : turns[k].ok
    THEN [ok |-> TRUE, out |-> NotesPanel(explanation, turns)]
    ELSE [ok |-> FALSE, out |-> NoOutput]

NoteTurns(items, cites) == [k \in 1..Len(items) |-> NoteTurn(items[k], cites)]

\* lines 85-132: [ok, out]; not ok is an exception of the try block
Rendered(data, cites, row) ==
    LET notes == DictGet(data, Chars("examples"), PyList(<<>>))
    IN  IF ~row.ok THEN [ok |-> FALSE, out |-> NoOutput]
        ELSE IF ~Truthy(notes) THEN [ok |-> TRUE, out |-> Panel(row.val, <<>>, <<>>)]
        ELSE IF ~Iterate(notes).ok THEN [ok |-> FALSE, out |-> NoOutput]
        ELSE NotesOf(row.val, NoteTurns(Iterate(notes).items, cites))

\* what format_response(data, citations) prints: data.get is an
\* AttributeError, caught like the others, when data is no dict
PanelOr(r, data) == IF r.ok THEN r.out ELSE Fallback(data)

Console(data, cites) ==
    IF data.kind = "dict" THEN PanelOr(Rendered(data, cites, ExplanationRow(data, cites)), data)
    ELSE Fallback(data)

-----------------------------------------------------------------------------
(* parse_perplexity_response, stage by stage.  pc names the stage about to *)
(* run; "returned" and "raised" end the call.                              *)

Call(name) == calls' = Append(calls, name)

\* the envelope test, json.loads(raw_response) and the content path
ContentOf(outer_json) ==
    IF outer_json.ok THEN SubscriptPath(outer_json.val, ContentPath)
    ELSE Raised("JSONDecodeError")

Unwrapped(got) ==
    IF got.ok THEN text' = got.val /\ pc' = "locate" /\ exc' = exc
    ELSE text' = text /\ pc' = "raised" /\ exc' = got.exc

unwrap ==
    /\ pc = "unwrap"
    /\ IF Contains(raw_response, EnvelopeMarker)
       THEN /\ Call("json.loads(raw_response)")
            /\ Unwrapped(ContentOf(json_loads(raw_response)))
       ELSE /\ text' = PyStr(raw_response)
            /\ pc' = "locate"
            /\ UNCHANGED <<exc, calls>>
    /\ UNCHANGED <<api_key, transport, raw_response, match, json_str, result,
                   returned, citations, content, printed, exit_code>>

\* re.search of the object pattern; json_str = match.group(1)
Located(m) ==
    IF m.found THEN match' = m /\ json_str' = m.group1 /\ pc' = "protect" /\ exc' = exc
    ELSE pc' = "raised" /\ exc' = "ValueError" /\ UNCHANGED <<match, json_str>>

locate ==
    /\ pc = "locate"
    /\ Call("re.search")
    /\ IF text.kind # "str"
       THEN pc' = "raised" /\ exc' = "TypeError" /\ UNCHANGED <<match, json_str>>
       ELSE Located(re_search_object(text.str))
    /\ UNCHANGED <<api_key, transport, raw_response, text, result, returned,
                   citations, content, printed, exit_code>>

\* the first re.sub: newlines of string literals become the placeholder
protect ==
    /\ pc = "protect"
    /\ Call("re.sub(strings)")
    /\ json_str' = protect_strings(json_str)
    /\ pc' = "control"
    /\ UNCHANGED <<api_key, transport, raw_response, text, match, result, exc,
                   returned, citations, content, printed, exit_code>>

\* the second re.sub: control characters become spaces
control ==
    /\ pc = "control"
    /\ Call("re.sub(control)")
    /\ json_str' = replace_control(json_str)
    /\ pc' = "decode"
    /\ UNCHANGED <<api_key, transport, raw_response, text, match, result, exc,
                   returned, citations, content, printed, exit_code>>

\* try: result = json.loads(json_str)
Decoded(r) ==
    IF r.ok THEN result' = r.val /\ pc' = "restore"
    ELSE result' = result /\ pc' = "unescape"

decode ==
    /\ pc = "decode"
    /\ Call("json.loads(json_str)")
    /\ Decoded(json_loads(json_str))
    /\ UNCHANGED <<api_key, transport, raw_response, text, match, json_str, exc,
                   returned, citations, content, printed, exit_code>>

\* except json.JSONDecodeError: json_str = json_str.encode().decode("unicode_escape")
Unescape(u) ==
    IF u.ok THEN json_str' = u.text /\ pc' = "decode_again" /\ exc' = exc
    ELSE json_str' = json_str /\ pc' = "raised" /\ exc' = "UnicodeDecodeError"

unescape ==
    /\ pc = "unescape"
    /\ Call("unicode_escape")
    /\ Unescape(unicode_escape(json_str))
    /\ UNCHANGED <<api_key, transport, raw_response, text, match, result,
                   returned, citations, content, printed, exit_code>>

\* result = json.loads(json_str) of the except block
\* the chain that unescapes again when the second decode fails
DecodedAgainOrRetry(r) ==
    IF r.ok THEN result' = r.val /\ pc' = "restore" /\ exc' = exc
    ELSE result' = result /\ pc' = "unescape" /\ exc' = exc

DecodedAgain(r) ==
    IF r.ok THEN result' = r.val /\ pc' = "restore" /\ exc' = exc
    ELSE result' = result /\ pc' = "raised" /\ exc' = "JSONDecodeError"

decode_again ==
    /\ pc = "decode_again"
    /\ Call("json.loads(json_str)")
    /\ DecodedAgain(json_loads(json_str))
    /\ UNCHANGED <<api_key, transport, raw_response, text, match, json_str,
                   returned, citations, content, printed, exit_code>>

\* return restore_newlines(result)
restore ==
    /\ pc = "restore"
    /\ Call("restore_newlines")
    /\ returned' = restore_newlines(result)
    /\ pc' = "returned"
    /\ UNCHANGED <<api_key, transport, raw_response, text, match, json_str, result,
                   exc, citations, content, printed, exit_code>>

ParseNext ==
    \/ unwrap
    \/ locate
    \/ protect
    \/ control
    \/ decode
    \/ unescape
    \/ decode_again
    \/ restore

-----------------------------------------------------------------------------
(* The payloads parse_perplexity_response is run on *)

MaxValueLen == 3
MaxBodyLen == 4
MaxProseLen == 2

\* the texts of at most n characters of the alphabet A
Words(A, n) == UNION {[1..k -> A] : k \in 0..n}

\* A string literal as a JSON serializer writes it: quote, backslash and the
\* common control characters escaped.
JsonQuote(t) ==
    <<DQ>> \o Flatten([k \in 1..Len(t) |->
                 CASE t[k] = DQ -> <<BS, DQ>>
                   [] t[k] = BS -> <<BS, BS>>
                   [] t[k] = NL -> <<BS, "n">>
                   [] t[k] = TAB -> <<BS, "t">>
                   [] t[k] = CR -> <<BS, "r">>
                   [] OTHER -> <<t[k]>>]) \o <<DQ>>

\* A string literal as the model writes it in its content: quote and backslash
\* escaped, a newline left raw.
RawNewlineQuote(t) ==
    <<DQ>> \o Flatten([k \in 1..Len(t) |->
                 CASE t[k] = DQ -> <<BS, DQ>>
                   [] t[k] = BS -> <<BS, BS>>
                   [] OTHER -> <<t[k]>>]) \o <<DQ>>

\* one more level of escaping over a whole text: quotes and backslashes
EscapeOnce(t) ==
    Flatten([k \in 1..Len(t) |->
                 CASE t[k] = DQ -> <<BS, DQ>>
                   [] t[k] = BS -> <<BS, BS>>
                   [] OTHER -> <<t[k]>>])

KeyA == Chars("a")

\* an object whose one string value is v, its newlines raw
ObjectWithRawNewlines(v) == Chars("{\"a\":") \o RawNewlineQuote(v) \o <<RBRACE>>

\* the same object as valid JSON, and that text escaped once more
ObjectJson(v) == Chars("{\"a\":") \o JsonQuote(v) \o <<RBRACE>>
DoubleEscapedObject(v) == EscapeOnce(ObjectJson(v))

\* the value both are meant to decode to
ObjectValue(v) == PyDict(<<KeyA>>, <<PyStr(v)>>)

ValueAlphabet == {"a", NL, BS, DQ}
Values == Words(ValueAlphabet, MaxValueLen)

EscapedAlphabet == {"a", EACUTE, DQ, NL}
EscapedValues == Words(EscapedAlphabet, MaxProseLen)

\* candidates with string literals, escapes, raw newlines and control characters
BodyAlphabet == {DQ, BS, NL, TAB, "u"}
Candidates == {<<LBRACE>> \o b \o <<RBRACE>> : b \in Words(BodyAlphabet, MaxBodyLen)}

\* content texts: prose, brace-balanced blocks, prose
LeadProse == {<<>>, Chars("Here: "), Chars("} ")}
BlockRuns ==
    { Chars("{\"a\":\"b\"}"),
      Chars("{\"a\":{\"b\":1}}"),
      Chars("{\"a\":1} and {\"b\":2}") }
ProseAlphabet == {"x", SP, RBRACE}
TrailProse == Words(ProseAlphabet, MaxProseLen)
ProseTexts == {l \o b \o t : l \in LeadProse, b \in BlockRuns, t \in TrailProse}

\* the API envelope around the content texts cs, one choice each
Choice(c) == Chars("{\"message\":{\"role\":\"assistant\",\"content\":") \o JsonQuote(c) \o Chars("}}")
RECURSIVE Joined(_, _)
Joined(ts, sep) ==
    IF ts = <<>> THEN <<>>
    ELSE IF Len(ts) = 1 THEN ts[1]
    ELSE ts[1] \o sep \o Joined(Tail(ts), sep)
EnvelopeHead(cs) ==
    Chars("{\"choices\":[") \o Joined([k \in 1..Len(cs) |-> Choice(cs[k])], <<",">>) \o <<"]">>
Envelope(cs) == EnvelopeHead(cs) \o <<RBRACE>>

EnvelopeContents ==
    { Chars("{\"explanation\":\"x\",\"examples\":[]}"),
      Chars("Here is the JSON: {\"explanation\":\"x\"} ok"),
      <<LBRACE, DQ, "a", DQ, ":", DQ, "x", NL, "y", DQ, RBRACE>>,
      Chars("No result from Perplexity."),
      Chars("{\"content\":\"x\"}") }

EnvelopeChoices ==
    {<<c>> : c \in EnvelopeContents}
      \cup {<<c, d>> : c \in EnvelopeContents, d \in EnvelopeContents}

Envelopes == {Envelope(cs) : cs \in EnvelopeChoices}

\* payloads that hold the marker and are no envelope
BrokenEnvelopes ==
    { Chars("{\"choices\":[{\"message\":{\"content\":\"{}\"}}"),
      Chars("{\"choices\":[],\"detail\":{\"content\":\"{}\"}}"),
      Chars("{\"error\":{\"content\":\"{}\"}}"),
      Chars("{\"choices\":{\"message\":{\"content\":\"{}\"}}}"),
      Chars("{\"choices\":[{\"message\":[{\"content\":\"{}\"}]}]}"),
      Chars("{\"choices\":\"ab\",\"message\":{\"content\":1}}"),
      Chars("[{\"content\":\"{}\"}]"),
      Chars("{\"choices\":[{\"message\":{\"content\":5}}]}"),
      Chars("{\"choices\":[{\"message\":{\"content\":null}}]}"),
      Chars("{\"explanation\":\"x\",\"content\":\"y\"}"),
      Chars("Here: {\"content\":\"y\"}") }

ParsePayloads ==
    {ObjectWithRawNewlines(v) : v \in Values}
      \cup {DoubleEscapedObject(v) : v \in EscapedValues}
      \cup Candidates \cup ProseTexts \cup TrailProse
      \cup Envelopes \cup BrokenEnvelopes

\* the locals of a call of parse_perplexity_response that has not started
ParseLocals ==
    /\ text = PyNone
    /\ match = NoMatch
    /\ json_str = <<>>
    /\ result = PyNone
    /\ exc = ""
    /\ calls = <<>>
    /\ returned = PyNone

InitParse ==
    /\ pc = "unwrap"
    /\ raw_response \in ParsePayloads
    /\ ParseLocals
    /\ api_key = <<>>
    /\ transport = [kind |-> "none", status |-> 0, body |-> <<>>]
    /\ citations = PyNone
    /\ content = <<>>
    /\ printed = NoOutput
    /\ exit_code = -1

SpecParse == InitParse /\ [][ParseNext]_vars

-----------------------------------------------------------------------------
(* Properties of parse_perplexity_response, checked under SpecParse *)

Called(name) == \E k \in 1..Len(calls) : calls[k] = name

\* C1: for every object text that is well-formed JSON but for the raw newlines
\* of its string value, the call returns, and returns the object whose string
\* value is the original character sequence, each newline in its place.
C1_NewlineRoundTrip ==
    \A v \in Values :
        (raw_response = ObjectWithRawNewlines(v) /\ pc \in {"returned", "raised"})
            => (pc = "returned" /\ returned = ObjectValue(v))

\* C2: a text without an opening brace fails with ValueError at the locator,
\* before any sanitizing or decoding; for a text made of leading prose, a run
\* of brace-balanced blocks and trailing prose the candidate is the run of
\* blocks, with none of the trailing prose.
C2_LocatorBoundary ==
    /\ \A t \in TrailProse :
          (raw_response = t /\ pc \notin {"unwrap", "locate"})
              => (pc = "raised" /\ exc = "ValueError" /\ calls = <<"re.search">>)
    /\ \A l \in LeadProse, b \in BlockRuns, t \in TrailProse :
          (raw_response = l \o b \o t /\ pc \notin {"unwrap", "locate"})
              => (match.found /\ match.group1 = b)

\* C4: once the unwrap stage has run, a payload without the envelope marker
\* is the content text unchanged, and no document was decoded for it; a
\* payload with the marker was decoded first, is never the content text
\* itself, and either it is an envelope and the content text is the content
\* string of its first choice, or it is no envelope and the call fails before
\* anything is sanitized.
C4_EnvelopeDetection ==
    pc # "unwrap" =>
        IF Contains(raw_response, EnvelopeMarker)
        THEN /\ calls # <<>> /\ Head(calls) = "json.loads(raw_response)"
             /\ text # PyStr(raw_response)
             /\ \/ \E cs \in EnvelopeChoices :
                      raw_response = Envelope(cs) /\ text = PyStr(cs[1])
                \/ /\ raw_response \in BrokenEnvelopes
                   /\ text.kind # "str"
                   /\ pc \in {"locate", "raised"}
        ELSE /\ text = PyStr(raw_response)
             /\ ~Called("json.loads(raw_response)")

\* an envelope of two different choices has been unwrapped to the first
C4_Witness ==
    \E c \in EnvelopeContents, d \in EnvelopeContents :
        /\ c # d
        /\ raw_response = Envelope(<<c, d>>)
        /\ pc = "locate"
        /\ text = PyStr(c)

\* C6: when the direct decode of a text fails and the decode after the one
\* unescape succeeds, the value returned is the value the direct decode gives
\* for the single-escaped form of the text.
C6_FallbackEquivalence ==
    \A v \in EscapedValues :
        (raw_response = DoubleEscapedObject(v) /\ pc = "returned" /\ Called("unicode_escape"))
            => returned = json_loads(ObjectJson(v)).val

\* The two-state scan: outside a string a quote enters one; inside, a
\* backslash escapes the character after it (a newline excepted, which is a
\* newline of the string), a quote leaves the string, a newline becomes the
\* placeholder.
RECURSIVE TwoStateScan(_, _, _)
TwoStateScan(s, i, inside) ==
    IF i > Len(s) THEN <<>>
    ELSE IF inside /\ s[i] = BS /\ i + 1 <= Len(s) /\ s[i + 1] # NL
    THEN <<BS, s[i + 1]>> \o TwoStateScan(s, i + 2, inside)
    ELSE IF s[i] = DQ THEN <<DQ>> \o TwoStateScan(s, i + 1, ~inside)
    ELSE IF inside /\ s[i] = NL THEN Placeholder \o TwoStateScan(s, i + 1, inside)
    ELSE <<s[i]>> \o TwoStateScan(s, i + 1, inside)

\* the state the scan ends in
RECURSIVE EndsInside(_, _, _)
EndsInside(s, i, inside) ==
    IF i > Len(s) THEN inside
    ELSE IF inside /\ s[i] = BS /\ i + 1 <= Len(s) /\ s[i + 1] # NL
    THEN EndsInside(s, i + 2, inside)
    ELSE IF s[i] = DQ THEN EndsInside(s, i + 1, ~inside)
    ELSE EndsInside(s, i + 1, inside)

\* C8: for a candidate whose every string is closed, the text after the
\* newline protection is the candidate with every newline the two-state scan
\* meets inside a string replaced by the placeholder, and every other
\* character, the newlines outside strings included, as it was.
C8_TwoStateNewlineProtection ==
    (raw_response \in Candidates /\ pc = "control" /\ ~EndsInside(match.group1, 1, FALSE))
        => json_str = TwoStateScan(match.group1, 1, FALSE)

\* The sanitizer that leaves every character of a string literal but its
\* newlines as it is: the control characters become spaces outside the
\* literals only.
RECURSIVE LiteralsKept(_, _)
LiteralsKept(s, i) ==
    LET q == IndexOf(s, DQ, i)
        e == IF q = 0 THEN 0 ELSE StringEnd(s, q + 1)
    IN  IF q = 0 THEN replace_control(From(s, i))
        ELSE IF e # 0
        THEN replace_control(SubSeq(s, i, q - 1)) \o replace_newlines(SubSeq(s, q, e))
                 \o LiteralsKept(s, e + 1)
        ELSE replace_control(SubSeq(s, i, q)) \o LiteralsKept(s, q + 1)

\* C9 as stated: the sanitized text is the candidate with the newlines of its
\* string literals replaced by the placeholder, every other character of a
\* literal unchanged, and the control characters outside the literals
\* replaced by a space.
C9_ControlOnlyOutsideLiterals ==
    pc = "decode" => json_str = LiteralsKept(match.group1, 1)

\* what a character of the candidate may become
Images(c) ==
    IF c = NL THEN {<<NL>>, Placeholder}
    ELSE IF c \in ControlChars THEN {<<SP>>}
    ELSE {<<c>>}

\* t from j on is s from i on, character by character, each by one of its images
RECURSIVE Conforms(_, _, _, _)
Conforms(s, i, t, j) ==
    IF i > Len(s) THEN j = Len(t) + 1
    ELSE \E img \in Images(s[i]) :
            StartsWithAt(t, img, j) /\ Conforms(s, i + 1, t, j + Len(img))

\* C9: the sanitized text is the candidate character by character, where a
\* newline is itself or the placeholder, a control character other than the
\* newline is one space, inside a string literal as well as outside, and any
\* other character is itself.
C9_SanitizerFrame ==
    pc = "decode" => Conforms(match.group1, 1, json_str, 1)

\* a literal that holds a tab and a newline has been sanitized
C9_Witness ==
    /\ pc = "decode"
    /\ match.group1 = <<LBRACE, DQ, TAB, NL, DQ, RBRACE>>
    /\ json_str = <<LBRACE, DQ, SP>> \o Placeholder \o <<DQ, RBRACE>>

\* the decode attempts and the unescapes made so far, in order
DecodeCalls == SelectSeq(calls, LAMBDA c : c \in {"json.loads(json_str)", "unicode_escape"})

DirectOnly == <<"json.loads(json_str)">>
DirectAndFallback == <<"json.loads(json_str)", "unicode_escape", "json.loads(json_str)">>
DirectAndUnescape == <<"json.loads(json_str)", "unicode_escape">>

\* the decode chain is under way or over, in the order direct decode, unescape,
\* decode; a value comes from the direct decode of the sanitized text, with no
\* unescape, or from the second decode
DecodeOrder ==
    /\ DecodeCalls \in {<<>>, DirectOnly, DirectAndUnescape, DirectAndFallback}
    /\ pc \in {"restore", "returned"} =>
          \/ DecodeCalls = DirectOnly /\ json_str = sanitize(match.group1)
          \/ DecodeCalls = DirectAndFallback

ChainFailed == pc = "raised" /\ DecodeCalls # <<>>

-----------------------------------------------------------------------------
(* The command line run: main, query_perplexity, format_response *)

\* args.api_key or os.environ.get: without a key main raises RuntimeError
\* outside its try block, and the interpreter exits with status 1
main ==
    /\ pc = "main"
    /\ Call("main")
    /\ IF api_key = <<>>
       THEN pc' = "exit" /\ exc' = "RuntimeError" /\ exit_code' = 1
       ELSE pc' = "urlopen" /\ UNCHANGED <<exc, exit_code>>
    /\ UNCHANGED <<api_key, transport, raw_response, text, match, json_str, result,
                   returned, citations, content, printed>>

\* query_perplexity up to response.read(): HTTPError and URLError are logged
\* and raised again, a status other than 200 is a ValueError; main logs each
\* and calls sys.exit(1)
urlopen ==
    /\ pc = "urlopen"
    /\ Call("urlopen")
    /\ IF transport.kind \in {"HTTPError", "URLError"}
       THEN pc' = "exit" /\ exc' = transport.kind /\ exit_code' = 1
              /\ raw_response' = raw_response
       ELSE IF transport.status # 200
       THEN pc' = "exit" /\ exc' = "ValueError" /\ exit_code' = 1
              /\ raw_response' = raw_response
       ELSE pc' = "unwrap" /\ raw_response' = transport.body /\ UNCHANGED <<exc, exit_code>>
    /\ UNCHANGED <<api_key, transport, text, match, json_str, result,
                   returned, citations, content, printed>>

CitationsOf(outer) ==
    IF outer.ok THEN Subscript(outer.val, PyStr(Chars("citations"))) ELSE Raised("JSONDecodeError")

\* citations = json.loads(response_body)["citations"]
Loaded(got) ==
    IF got.ok THEN citations' = got.val /\ pc' = "format_response" /\ exc' = exc
    ELSE citations' = citations /\ pc' = "raised" /\ exc' = got.exc

load_citations ==
    /\ pc = "returned"
    /\ Call("json.loads(response_body)")
    /\ Loaded(CitationsOf(json_loads(raw_response)))
    /\ UNCHANGED <<api_key, transport, raw_response, text, match, json_str, result,
                   returned, content, printed, exit_code>>

\* except Exception of query_perplexity: the error is logged and the function
\* returns None; main's unpacking of None is a TypeError, which main logs
\* before sys.exit(1)
query_except ==
    /\ pc = "raised"
    /\ Call("logger.error")
    /\ exc' = "TypeError"
    /\ pc' = "exit"
    /\ exit_code' = 1
    /\ UNCHANGED <<api_key, transport, raw_response, text, match, json_str, result,
                   returned, citations, content, printed>>

\* formatter.format_response(content, citations): it catches its own
\* exceptions, and main returns
format_response ==
    /\ pc = "format_response"
    /\ Call("format_response")
    /\ printed' = Console(returned, citations)
    /\ pc' = "exit"
    /\ exit_code' = 0
    /\ UNCHANGED <<api_key, transport, raw_response, text, match, json_str, result,
                   exc, returned, citations, content>>

Next ==
    \/ main
    \/ urlopen
    \/ unwrap
    \/ locate
    \/ protect
    \/ control
    \/ decode
    \/ unescape
    \/ decode_again
    \/ restore
    \/ load_citations
    \/ query_except
    \/ format_response

-----------------------------------------------------------------------------
(* The runs of the command line *)

\* the content texts of the responses
ResponseContents ==
    { Chars("{\"explanation\":\"See [1] and [2]\",\"examples\":[\"n [1]\",{\"code\":\"ls\",\"description\":\"d\"}]}"),
      Chars("{\"explanation\":\"x\",\"examples\":[{\"code\":\"ls\"}]}"),
      Chars("Here is the JSON: {\"explanation\":\"x [3]\",\"examples\":[]} ok"),
      Chars("{\"explanation\":5,\"examples\":[\"n\"]}"),
      Chars("{\"examples\":7}"),
      Chars("No result from Perplexity."),
      Chars("{\"explanation\":x}") }

\* what follows the choices in the response: the citations, or nothing
ResponseTails ==
    { <<>>,
      Chars(",\"citations\":[\"u\",\"[3]\"]"),
      Chars(",\"citations\":[]"),
      Chars(",\"citations\":[\"\",\"a\\\\b\"]"),
      Chars(",\"citations\":7"),
      Chars(",\"citations\":null") }

\* responses that are the content itself
BareBodies ==
    { Chars("{\"explanation\":\"x [1]\",\"citations\":[\"u\"]}"),
      Chars("Here: {\"explanation\":\"x\",\"citations\":{\"u\":1}}") }

ResponseBodies ==
    {EnvelopeHead(<<c>>) \o t \o <<RBRACE>> : c \in ResponseContents, t \in ResponseTails}
      \cup BareBodies \cup BrokenEnvelopes

Response(status, body) == [kind |-> "response", status |-> status, body |-> body]

Transports ==
    { [kind |-> "HTTPError", status |-> 0, body |-> <<>>],
      [kind |-> "URLError", status |-> 0, body |-> <<>>],
      Response(204, <<>>) }
      \cup {Response(200, b) : b \in ResponseBodies}

ApiKeys == {<<>>, Chars("k")}

Init ==
    /\ pc = "main"
    /\ api_key \in ApiKeys
    /\ transport \in Transports
    /\ raw_response = <<>>
    /\ ParseLocals
    /\ citations = PyNone
    /\ content = <<>>
    /\ printed = NoOutput
    /\ exit_code = -1

Spec == Init /\ [][Next]_vars

RunSucceeded ==
    /\ api_key # <<>>
    /\ transport.kind = "response" /\ transport.status = 200
    /\ Called("restore_newlines")

\* C5: the run exits with code 0 when the transport call and every stage of
\* the pipeline succeeded; when one of them failed it exits with a code other
\* than 0, and format_response was not called and printed nothing.
C5_ExitStatusAndFailFast ==
    pc = "exit" =>
        IF RunSucceeded THEN exit_code = 0
        ELSE exit_code # 0 /\ ~Called("format_response") /\ printed = NoOutput

-----------------------------------------------------------------------------
(* _format_citations on its own, checked under SpecCite *)

Cited(r) ==
    IF r.ok THEN returned' = PyStr(r.text) /\ pc' = "returned" /\ exc' = exc
    ELSE returned' = returned /\ pc' = "raised" /\ exc' = "re.error"

\* TerminalFormatter._format_citations(citations, content)
format_citations ==
    /\ pc = "_format_citations"
    /\ Call("_format_citations")
    /\ Cited(_format_citations(CitationTexts(citations.items), content))
    /\ UNCHANGED <<api_key, transport, raw_response, text, match, json_str, result,
                   citations, content, printed, exit_code>>

MaxCitations == 2
MaxMarkers == 3

CitationUrls == {<<>>, Chars("u"), Chars("[2]"), Chars("a\\b"), Chars("a\\q")}
CitationLists == {PyList([k \in 1..Len(w) |-> PyStr(w[k])]) : w \in Words(CitationUrls, MaxCitations)}

ContentTokens == {Chars("[1]"), Chars("[2]"), Chars("[3]"), Chars("x ")}
Contents == {Flatten(w) : w \in Words(ContentTokens, MaxMarkers)}

InitCite ==
    /\ pc = "_format_citations"
    /\ citations \in CitationLists
    /\ content \in Contents
    /\ raw_response = <<>>
    /\ ParseLocals
    /\ api_key = <<>>
    /\ transport = [kind |-> "none", status |-> 0, body |-> <<>>]
    /\ printed = NoOutput
    /\ exit_code = -1

SpecCite == InitCite /\ [][format_citations]_vars

\* the i-th citation, or # for an empty one
UrlOf(cites, i) == IF cites[i] # <<>> THEN cites[i] ELSE <<"#">>

\* The text txt from index p on with each marker of an index 1..Len(cites)
\* replaced by its annotated form, and nothing else changed.
RECURSIVE MarkersAnnotated(_, _, _)
MarkersAnnotated(cites, txt, p) ==
    LET hits == {k \in p..Len(txt) : \E i \in 1..Len(cites) : StartsWithAt(txt, Marker(i), k)}
        k == Least(hits)
        i == CHOOSE n \in 1..Len(cites) : StartsWithAt(txt, Marker(n), k)
    IN  IF hits = {} THEN From(txt, p)
        ELSE SubSeq(txt, p, k - 1) \o Annotation(UrlOf(cites, i), i)
                 \o MarkersAnnotated(cites, txt, k + Len(Marker(i)))

\* C3: _format_citations returns the text in which each marker of the
\* original text with an index within the list is replaced once by its
\* annotated form, and every other character, the inserted text included, is
\* as it was.
C3_CitationSubstitutionExact ==
    pc \in {"returned", "raised"} =>
        /\ pc = "returned"
        /\ returned = PyStr(MarkersAnnotated(CitationTexts(citations.items), content, 1))

-----------------------------------------------------------------------------
(* restore_newlines on its own, checked under SpecRestore *)

MaxTokens == 3

RestoreTokens == {Placeholder, <<NL>>, Chars("a"), Chars("{{NEWLINE")}
RestoreTexts == {Flatten(w) : w \in Words(RestoreTokens, MaxTokens)}

\* decoded values that hold the text t at several depths, and as a key
ValuesWith(t) ==
    { PyStr(t),
      PyList(<<PyStr(t), PyInt(1), PyList(<<PyStr(t), PyNone>>)>>),
      PyDict(<<t, KeyA>>, <<PyDict(<<KeyA>>, <<PyStr(t)>>), PyList(<<PyBool(TRUE), PyStr(t)>>)>>) }

RestoreValues ==
    UNION {ValuesWith(t) : t \in RestoreTexts}
      \cup {PyNone, PyBool(FALSE), PyInt(7), PyFloat(Chars("1.5")), PyList(<<>>), PyDict(<<>>, <<>>)}

InitRestore ==
    /\ pc = "restore"
    /\ result \in RestoreValues
    /\ raw_response = <<>>
    /\ text = PyNone
    /\ match = NoMatch
    /\ json_str = <<>>
    /\ exc = ""
    /\ calls = <<>>
    /\ returned = PyNone
    /\ api_key = <<>>
    /\ transport = [kind |-> "none", status |-> 0, body |-> <<>>]
    /\ citations = PyNone
    /\ content = <<>>
    /\ printed = NoOutput
    /\ exit_code = -1

SpecRestore == InitRestore /\ [][restore]_vars

\* the text with each newline written as the placeholder
NewlinesAsPlaceholders(t) ==
    Flatten([k \in 1..Len(t) |-> IF t[k] = NL THEN Placeholder ELSE <<t[k]>>])

\* out is in with the newlines restored: the same shape, keys and scalars;
\* a string holds no placeholder any more and is the input once the newlines
\* of both are written as placeholders
RECURSIVE Restored(_, _)
Restored(in, out) ==
    CASE in.kind = "dict" ->
            /\ out.kind = "dict" /\ out.keys = in.keys /\ Len(out.items) = Len(in.items)
            /\ \A k \in 1..Len(in.items) : Restored(in.items[k], out.items[k])
      [] in.kind = "list" ->
            /\ out.kind = "list" /\ Len(out.items) = Len(in.items)
            /\ \A k \in 1..Len(in.items) : Restored(in.items[k], out.items[k])
      [] in.kind = "str" ->
            /\ out.kind = "str"
            /\ ~Contains(out.str, Placeholder)
            /\ NewlinesAsPlaceholders(out.str) = NewlinesAsPlaceholders(in.str)
      [] OTHER -> out = in

\* C7: restore_newlines returns a tree of the same shape, keys and order as
\* the decoded value, every string of which is the input string with each
\* placeholder replaced by one newline, every number, boolean and null of
\* which is the input's; it does not fail.
C7_RestoreNewlines ==
    /\ pc \in {"restore", "returned"}
    /\ pc = "returned" => Restored(result, returned)

\* a nested value that holds placeholders has been restored
C7_Witness ==
    /\ pc = "returned"
    /\ result = PyList(<<PyStr(Placeholder \o <<"a">> \o Placeholder), PyInt(1),
                         PyList(<<PyStr(Placeholder \o <<"a">> \o Placeholder), PyNone>>)>>)
    /\ returned = PyList(<<PyStr(<<NL, "a", NL>>), PyInt(1),
                           PyList(<<PyStr(<<NL, "a", NL>>), PyNone>>)>>)

====
